---- MODULE Spec2Model ----
(***************************************************************************)
(* Stablecoin Tracker Dashboard: the data aggregation engine               *)
(* (data_collectors.py), the background update loops and the reader        *)
(* callbacks of the three entry points app.py, run_local.py and            *)
(* working_app.py.                                                         *)
(*                                                                         *)
(* Conventions.  A Python dict is a function with a finite domain of       *)
(* strings, {} is the function with the empty domain.  An Optional value   *)
(* is a set with at most one element (None is the empty set).  A pandas    *)
(* DataFrame is the sequence of its rows.  Prices are fixed-point numbers  *)
(* in units of 1/Scale.  The fields named cyc are history fields: they     *)
(* record the collection cycle in which an entry was fetched and are read  *)
(* by no operation of the program.                                         *)
(***************************************************************************)
EXTENDS Integers, Sequences, FiniteSets, TLC

VARIABLES
    entry,            \* the entry point that was launched
    pc,               \* position of every thread
    idx,              \* loop index over STABLECOINS of every loop thread
    cycle,            \* number of the running cycle of every loop thread
    net,              \* what the upstreams do during the cycle of a loop thread
    prices,           \* collect_all_data: local prices
    on_chain_data,    \* collect_all_data: local on_chain_data
    ret,              \* value returned by collect_all_data to its caller
    hist_data,        \* local hist_data of the update loop
    current_data,     \* module global current_data of the dashboard module
    historical_data,  \* module global historical_data of app.py
    seen,             \* the value a reader callback last obtained from current_data
    w_local,          \* working_app.update_data: locals
    dev_args,         \* arguments of a function that is called on its own
    dev_result,       \* outcome of that call
    shown,            \* what each callback of the dashboard last returned
    issued,           \* CoinGecko requests a loop thread issued since its last sleep
    permits,          \* permits the Throttler of a collector granted since then
    sent,             \* the requests sent to the upstreams so far
    refreshes         \* calls of get_historical_data in the running cycle, per symbol

vars == <<entry, pc, idx, cycle, net, prices, on_chain_data, ret, hist_data,
          current_data, historical_data, seen, w_local, dev_args, dev_result,
          shown, issued, permits, sent, refreshes>>

-----------------------------------------------------------------------------
(* Bounds of the model *)

\* cycle numbers are counted modulo NCycles
NCycles == 2

\* half width of the window of prices around the peg, in units of 1/Scale
PriceWindow == 25

\* longest price series handed to detect_anomalies
MaxSeries == 3

\* prices are fixed-point numbers with three decimal places: 1.0 is Scale
Scale == 10 * 10 * 10

-----------------------------------------------------------------------------
(* config.py *)

STABLECOINS == <<"USDT", "USDC", "DAI">>

SymbolSet == {STABLECOINS[i] : i \in 1..Len(STABLECOINS)}

Address == [USDT |-> "0xdAC1", USDC |-> "0xA0b8", DAI |-> "0x6B17"]

\* config.ANOMALY_THRESHOLD = 0.02
ANOMALY_THRESHOLD == (2 * Scale) \div 100

\* the literal 0.005 of update_price_cards and update_stability_analysis
WatchBoundary == (5 * Scale) \div 1000

\* symbol.lower()
Lower == [USDT |-> "usdt", USDC |-> "usdc", DAI |-> "dai"]

-----------------------------------------------------------------------------
(* Python values *)

EmptyDict == [k \in {} |-> k]

None == {}

Some(v) == {v}

EmptyFrame == << >>

HTTP_OK == 200

\* a decoded JSON body that is an array, not an object
JsonArray == [json_array |-> TRUE]

IsDict(v) == "json_array" \notin DOMAIN v

\* a str and an int holding the number n
PyStr(n) == [str |-> n]

PyInt(n) == [int |-> n]

Abs(x) == IF x < 0 THEN -x ELSE x

-----------------------------------------------------------------------------
(* What the upstreams do during one cycle.                                  *)
(*   price.status   HTTP status of the /simple/price answer                 *)
(*   price.shape    "object" or "array": the JSON type of a decodable body  *)
(*   price.per[s]   what the price provider does with instrument s:         *)
(*                  "ok"        a price object with the key usd             *)
(*                  "timeout"   its data never arrives: the call times out  *)
(*                  "malformed" the body cannot be decoded                  *)
(*                  "nousd"     a price object without the key usd          *)
(*                  "missing"   no entry for the instrument                 *)
(*   chain[s].supply, chain[s].holders   what Etherscan does with the call: *)
(*                  "ok"        status '1' and a result                     *)
(*                  "error"     HTTP error, status '0' or an exception      *)
(*                  "silent"    the upstream never answers                  *)

PriceKinds == {"ok", "timeout", "malformed", "nousd", "missing"}

ChainKinds == {"ok", "error", "silent"}

NetOf(status, per, supply, holders) ==
    [price |-> [status |-> status, shape |-> "object", per |-> per],
     chain |-> [s \in SymbolSet |-> [supply |-> supply[s], holders |-> holders[s]]]]

AllSym(kind) == [s \in SymbolSet |-> kind]

\* every call of every upstream succeeds
NetAllOk == NetOf(HTTP_OK, AllSym("ok"), AllSym("ok"), AllSym("ok"))

\* price: success for USDT, timeout for USDC, malformed payload for DAI
NetPriceMixed ==
    NetOf(HTTP_OK, [USDT |-> "ok", USDC |-> "timeout", DAI |-> "malformed"],
          AllSym("ok"), AllSym("ok"))

\* only the price of USDC fails: the price request times out
NetUsdcTimeout ==
    NetOf(HTTP_OK, [AllSym("ok") EXCEPT !["USDC"] = "timeout"], AllSym("ok"), AllSym("ok"))

\* only the supply call of USDT fails
NetSupplyDown ==
    NetOf(HTTP_OK, AllSym("ok"), [AllSym("ok") EXCEPT !["USDT"] = "error"], AllSym("ok"))

\* every call of every upstream fails
NetAllDown == NetOf(500, AllSym("timeout"), AllSym("error"), AllSym("error"))

\* Etherscan accepts the supply request of USDC and never answers it
NetEtherscanSilent ==
    NetOf(HTTP_OK, AllSym("ok"), [AllSym("ok") EXCEPT !["USDC"] = "silent"], AllSym("ok"))

\* the price answer holds USDT only, and the price object of DAI lacks usd
NetPartial ==
    NetOf(HTTP_OK, [USDT |-> "ok", USDC |-> "missing", DAI |-> "nousd"],
          AllSym("ok"), AllSym("ok"))

\* the price answer is a JSON array, the supply call of USDT fails
NetArray ==
    [NetOf(HTTP_OK, AllSym("ok"), [AllSym("ok") EXCEPT !["USDT"] = "error"], AllSym("ok"))
        EXCEPT !.price.shape = "array"]

\* the price answer is the empty JSON object
NetEmptyObject == NetOf(HTTP_OK, AllSym("missing"), AllSym("ok"), AllSym("ok"))

\* the conditions a cycle of working_app.update_data is run under
WNetConditions ==
    {NetAllOk, NetPartial, NetArray, NetEmptyObject, NetAllDown, NetEtherscanSilent}

\* the conditions a cycle is run under
NetConditions ==
    {NetAllOk, NetPriceMixed, NetUsdcTimeout, NetSupplyDown, NetAllDown,
     NetEtherscanSilent}

\* the conditions the liveness specification runs a cycle under
FewNetConditions == {NetAllOk, NetEtherscanSilent}

\* the values the upstreams report
QuoteUsd == [USDT |-> 1000, USDC |-> 1021, DAI |-> 999]

SupplyOf == [USDT |-> 100, USDC |-> 50, DAI |-> 0]

HoldersOf == [USDT |-> 5, USDC |-> 2, DAI |-> 1]

-----------------------------------------------------------------------------
(* data_collectors.py: the source clients *)

\* the JSON object of one instrument in the /simple/price answer
PriceObject(s, kind, k) ==
    IF kind = "ok"
    THEN [usd |-> QuoteUsd[s], usd_24h_change |-> 0, usd_market_cap |-> SupplyOf[s],
          cyc |-> k]
    ELSE [usd_24h_change |-> 0, cyc |-> k]

\* CoinGeckoCollector.get_stablecoin_prices: the answer of one batched call for
\* all symbols; every failure path returns {}
get_stablecoin_prices(p, k) ==
    IF \E s \in SymbolSet : p.per[s] = "timeout" THEN EmptyDict
    ELSE IF p.status # HTTP_OK THEN EmptyDict
    ELSE IF \E s \in SymbolSet : p.per[s] = "malformed" THEN EmptyDict
    ELSE IF p.shape = "array" THEN JsonArray
    ELSE LET present == {s \in SymbolSet : p.per[s] # "missing"}
             sym(id) == CHOOSE s \in present : Lower[s] = id
         IN  [id \in {Lower[s] : s \in present} |-> PriceObject(sym(id), p.per[sym(id)], k)]

\* EtherscanCollector.get_token_supply, for a call that is answered
get_token_supply(s, kind) == IF kind = "ok" THEN Some(SupplyOf[s]) ELSE None

\* EtherscanCollector.get_token_holders, for a call that is answered
get_token_holders(s, kind) == IF kind = "ok" THEN Some(HoldersOf[s]) ELSE None

\* requests.get(url, params=params): issued without a timeout, it returns only
\* if the upstream answers
RequestsGetReturns(kind) == kind # "silent"

\* collect_all_data: on_chain_data[symbol] = {...}
OnChainEntry(s, c, k) ==
    [supply  |-> get_token_supply(s, c.supply),
     holders |-> get_token_holders(s, c.holders),
     address |-> Address[s],
     cyc     |-> k]

\* collect_all_data: aggregated_data = {...}; the timestamp is the clock reading
\* of the cycle
AggregatedData(now, pr, oc) ==
    [timestamp |-> now, prices |-> pr, on_chain |-> oc, stablecoins |-> SymbolSet]

-----------------------------------------------------------------------------
(* data_collectors.py: historical prices *)

MsPerDay == 86400000

\* the 'prices' arrays the provider may answer with: [timestamp in ms, price]
HistPayloads ==
    { << >>,
      << <<86400000, 999>>, <<0, 1000>>, <<0, 1021>> >> }

\* an answer of /coins/{id}/market_chart: fault is an exception raised by the
\* call (connection error, timeout, undecodable body)
HistAnswers ==
    {[fault |-> FALSE, status |-> HTTP_OK, prices |-> p] : p \in HistPayloads}
    \cup {[fault |-> FALSE, status |-> 500, prices |-> << >>],
          [fault |-> TRUE, status |-> HTTP_OK, prices |-> << >>]}

\* the answers the liveness specification draws from
FewHistAnswers == {a \in HistAnswers : Len(a.prices) > 0}

\* pd.DataFrame(prices, columns=['timestamp', 'price']) with the columns
\* timestamp (to_datetime, unit ms), date and symbol added
HistFrame(symbol, p) ==
    [i \in 1..Len(p) |->
        [timestamp |-> p[i][1], price |-> p[i][2],
         date |-> p[i][1] \div MsPerDay, symbol |-> symbol]]

\* CoinGeckoCollector.get_historical_prices
get_historical_prices(symbol, a) ==
    IF a.fault THEN EmptyFrame
    ELSE IF a.status = HTTP_OK THEN HistFrame(symbol, a.prices)
    ELSE EmptyFrame

\* DataAggregator.get_historical_data
get_historical_data(symbol, a) == get_historical_prices(symbol, a)

\* DataFrame.empty
IsEmptyFrame(df) == Len(df) = 0

-----------------------------------------------------------------------------
(* data_collectors.py: the anomaly detector.  A float result is the exact   *)
(* rational num/den, kept with den > 0.                                     *)

Rat(n, d) == IF d < 0 THEN [num |-> -n, den |-> -d] ELSE [num |-> n, den |-> d]

RatEq(a, b) == a.num * b.den = b.num * a.den

RatLess(a, b) == a.num * b.den < b.num * a.den

\* Python's a / b on floats
TrueDiv(a, b) == IF b = 0 THEN [raises |-> "ZeroDivisionError"] ELSE Rat(a, b)

Returned(r) == "num" \in DOMAIN r

\* target_price: float = 1.0
DefaultTarget == Scale

\* calculate_peg_deviation without abs()
SignedDeviation(current_price, target_price) ==
    TrueDiv(current_price - target_price, target_price)

\* DataAggregator.calculate_peg_deviation
calculate_peg_deviation(current_price, target_price) ==
    TrueDiv(Abs(current_price - target_price), target_price)

\* a call calculate_peg_deviation(*args) with one or two positional arguments
CallDeviation(args) ==
    calculate_peg_deviation(args[1], IF Len(args) = 1 THEN DefaultTarget ELSE args[2])

\* value of dev_result before the call has returned or raised
Pending == [pending |-> TRUE]

\* detect_anomalies with a guard that skips a falsy price
DetectSkippingZero(price_list, threshold) ==
    LET kept == SelectSeq(price_list, LAMBDA price : price # 0)
    IN  [i \in 1..Len(kept) |->
            RatLess(Rat(threshold, Scale), calculate_peg_deviation(kept[i], Scale))]

\* DataAggregator.detect_anomalies: target_price = 1.0; one flag is appended
\* per price, deviation > threshold
detect_anomalies(price_list, threshold) ==
    [i \in 1..Len(price_list) |->
        RatLess(Rat(threshold, Scale), calculate_peg_deviation(price_list[i], Scale))]

-----------------------------------------------------------------------------
(* Threads *)

\* the update loops that run collect_all_data: app.update_data and
\* run_local.collect_data
Builders == {"app", "rl"}

\* all update loops: working_app.update_data too
Loops == {"app", "rl", "wa"}

Threads == {"app", "rl", "wa", "cards", "dash"}

EntryPoints == {"app.py", "run_local.py", "working_app.py"}

\* the threads an entry point starts
Started(e) ==
    IF e = "app.py" THEN {"app", "cards"}
    ELSE IF e = "run_local.py" THEN {"app", "rl", "cards"}
    ELSE IF e = "working_app.py" THEN {"wa", "dash"}
    ELSE {}

\* value of seen before a callback has read current_data
Unread == [unread |-> TRUE]

\* the callbacks of the dashboards: update_price_cards, update_price_chart,
\* update_supply_metrics, update_stability_analysis and update_metrics_table
\* of app.py, update_dashboard of working_app.py
Callbacks == {"cards", "chart", "supply", "stability", "table", "dashboard"}

\* value of shown before a callback has returned
NotRun == [not_run |-> TRUE]

NextCycle(k) == (k + 1) % NCycles

SetPc(t, p) == pc' = [pc EXCEPT ![t] = p]

-----------------------------------------------------------------------------
(* The rate limit of CoinGecko.  issued[t] counts the requests the loop t   *)
(* sent since its last sleep, permits[t] the permits the Throttler of the   *)
(* collector of t granted since then.  A sleep that lasts a period or more  *)
(* ends every window that holds one of these requests.                      *)

\* self.throttler = Throttler(rate_limit=50, period=60)
rate_limit == 50

period == 60

\* days: int = 30
HistoryDays == 30

\* time.sleep(300), await asyncio.sleep(300), time.sleep(60)
SleepSeconds(t) == IF t = "wa" THEN 60 ELSE 300

\* async with self.throttler: the body is entered when fewer than rate_limit
\* permits were granted within the period; until then the caller waits
CanAcquire(t) == permits[t] < rate_limit

Acquire(t) == permits' = [permits EXCEPT ![t] = permits[t] + 1]

\* a history fetched with one request per day of the lookback
MarketChartRequestPerDay(days) == days

\* get_historical_prices: one session.get of /coins/{id}/market_chart for
\* the whole lookback
MarketChartRequests(days) == 1

Issue(t, n) == issued' = [issued EXCEPT ![t] = issued[t] + n]

\* a request to the upstream source; held tells whether it is sent inside
\* "async with self.throttler"
Request(source, held) == [source |-> source, permit |-> held]

Send(requests) == sent' = sent \cup requests

\* no symbol was handed to get_historical_data yet
NoRefresh == [s \in SymbolSet |-> 0]

\* get_historical_data(symbol) is called by the loop of t
Refresh(t, symbol) ==
    refreshes' = [refreshes EXCEPT ![t][symbol] = refreshes[t][symbol] + 1]

\* the windows of the requests sent before the sleep are over after it
AfterSleep(t, counters) ==
    IF SleepSeconds(t) >= period THEN [counters EXCEPT ![t] = 0] ELSE counters

-----------------------------------------------------------------------------
(* app.update_data and run_local.collect_data: one cycle *)

\* the try statement is entered; a statement of its body that is no source
\* call (asyncio.new_event_loop, print) may raise
Try(t, nets) ==
    /\ pc[t] = "try"
    /\ \E n \in nets, raised \in BOOLEAN :
          /\ net' = [net EXCEPT ![t] = IF raised THEN net[t] ELSE n]
          /\ SetPc(t, IF raised THEN "except" ELSE "prices")
    /\ UNCHANGED <<refreshes, sent, shown, issued, permits, entry, idx, cycle, prices, on_chain_data, ret, hist_data,
                   current_data, historical_data, seen, w_local, dev_args, dev_result>>

\* collect_all_data: prices = await self.coingecko.get_stablecoin_prices(symbols)
CollectPrices(t) ==
    /\ pc[t] = "prices"
    /\ CanAcquire(t)
    /\ Acquire(t)
    /\ Issue(t, 1)
    /\ Send({Request("coingecko", TRUE)})
    /\ prices' = [prices EXCEPT ![t] = get_stablecoin_prices(net[t].price, cycle[t])]
    /\ on_chain_data' = [on_chain_data EXCEPT ![t] = EmptyDict]
    /\ idx' = [idx EXCEPT ![t] = 1]
    /\ SetPc(t, "chain")
    /\ UNCHANGED <<refreshes, shown, entry, cycle, net, ret, hist_data, current_data, historical_data,
                   seen, w_local, dev_args, dev_result>>

\* collect_all_data: one iteration of the loop over STABLECOINS.items(); the
\* thread stays in requests.get when the upstream never answers
CollectOnChain(t) ==
    /\ pc[t] = "chain"
    /\ LET s == STABLECOINS[idx[t]]
           c == net[t].chain[s]
       IN  IF RequestsGetReturns(c.supply) /\ RequestsGetReturns(c.holders)
           THEN /\ on_chain_data' =
                      [on_chain_data EXCEPT
                          ![t] = (s :> OnChainEntry(s, c, cycle[t])) @@ on_chain_data[t]]
                /\ IF idx[t] < Len(STABLECOINS)
                   THEN /\ idx' = [idx EXCEPT ![t] = idx[t] + 1]
                        /\ UNCHANGED pc
                   ELSE /\ SetPc(t, "aggregate")
                        /\ UNCHANGED idx
           ELSE /\ SetPc(t, "blocked")
                /\ UNCHANGED <<on_chain_data, idx>>
    /\ Send({Request("etherscan", FALSE)})
    /\ UNCHANGED <<refreshes, shown, issued, permits, entry, cycle, net, prices, ret, hist_data, current_data,
                   historical_data, seen, w_local, dev_args, dev_result>>

\* collect_all_data: aggregated_data is built and returned
Aggregate(t) ==
    /\ pc[t] = "aggregate"
    /\ ret' = [ret EXCEPT ![t] = AggregatedData(cycle[t], prices[t], on_chain_data[t])]
    /\ prices' = [prices EXCEPT ![t] = EmptyDict]
    /\ on_chain_data' = [on_chain_data EXCEPT ![t] = EmptyDict]
    /\ SetPc(t, IF t = "app" THEN "publish" ELSE "report")
    /\ UNCHANGED <<refreshes, sent, shown, issued, permits, entry, idx, cycle, net, hist_data, current_data, historical_data,
                   seen, w_local, dev_args, dev_result>>

\* the store of a module global: readers see the old object or the new one
StoreFieldwise(old, new) ==
    IF "prices" \in DOMAIN old /\ "prices" \in DOMAIN new
    THEN [old EXCEPT !.prices = new.prices]
    ELSE new

StoreGlobal(old, new) == new

\* app.update_data: current_data = loop.run_until_complete(...)
Publish ==
    /\ pc["app"] = "publish"
    /\ current_data' = StoreGlobal(current_data, ret["app"])
    /\ ret' = [ret EXCEPT !["app"] = EmptyDict]
    /\ idx' = [idx EXCEPT !["app"] = 1]
    /\ net' = [net EXCEPT !["app"] = NetAllOk]
    /\ SetPc("app", "hist_fetch")
    /\ UNCHANGED <<refreshes, sent, shown, issued, permits, entry, cycle, prices, on_chain_data, hist_data,
                   historical_data, seen, w_local, dev_args, dev_result>>

\* run_local.collect_data: the result is printed
Report ==
    /\ pc["rl"] = "report"
    /\ ret' = [ret EXCEPT !["rl"] = EmptyDict]
    /\ idx' = [idx EXCEPT !["rl"] = 1]
    /\ net' = [net EXCEPT !["rl"] = NetAllOk]
    /\ SetPc("rl", "hist_fetch")
    /\ UNCHANGED <<refreshes, sent, shown, issued, permits, entry, cycle, prices, on_chain_data, hist_data, current_data,
                   historical_data, seen, w_local, dev_args, dev_result>>

\* hist_data = get_historical_data(symbol); new_event_loop before it may raise
HistFetch(t, answers) ==
    /\ pc[t] = "hist_fetch"
    /\ \E a \in answers, raised \in BOOLEAN :
          IF raised
          THEN /\ SetPc(t, "except")
               /\ UNCHANGED <<hist_data, issued, permits, sent, refreshes>>
          ELSE /\ CanAcquire(t)
               /\ Acquire(t)
               /\ Issue(t, MarketChartRequests(HistoryDays))
               /\ Send({Request("coingecko", TRUE)})
               /\ Refresh(t, STABLECOINS[idx[t]])
               /\ hist_data' =
                     [hist_data EXCEPT ![t] = get_historical_data(STABLECOINS[idx[t]], a)]
               /\ SetPc(t, "hist_store")
    /\ UNCHANGED <<shown, entry, idx, cycle, net, prices, on_chain_data, ret, current_data,
                   historical_data, seen, w_local, dev_args, dev_result>>

\* app.update_data: if not hist_data.empty: historical_data[symbol] = hist_data
StoreUnguarded(store, symbol, df) == (symbol :> df) @@ store

\* the new rows appended to the series already stored
StoreAppended(store, symbol, df) ==
    IF IsEmptyFrame(df) THEN store
    ELSE IF symbol \in DOMAIN store THEN (symbol :> (store[symbol] \o df)) @@ store
    ELSE (symbol :> df) @@ store

\* the store rebuilt from the series at hand
StoreLatestOnly(store, symbol, df) ==
    IF ~IsEmptyFrame(df) THEN (symbol :> df) ELSE store

StoreHistory(store, symbol, df) ==
    IF ~IsEmptyFrame(df) THEN (symbol :> df) @@ store ELSE store

\* the rest of one iteration of the loop over STABLECOINS.keys(); run_local
\* only prints
HistStore(t) ==
    /\ pc[t] = "hist_store"
    /\ historical_data' =
          IF t = "app"
          THEN StoreHistory(historical_data, STABLECOINS[idx[t]], hist_data[t])
          ELSE historical_data
    /\ IF idx[t] < Len(STABLECOINS)
       THEN /\ idx' = [idx EXCEPT ![t] = idx[t] + 1]
            /\ SetPc(t, "hist_fetch")
       ELSE /\ SetPc(t, "sleep")
            /\ UNCHANGED idx
    /\ UNCHANGED <<refreshes, sent, shown, issued, permits, entry, cycle, net, prices, on_chain_data, ret, hist_data,
                   current_data, seen, w_local, dev_args, dev_result>>

\* a loop body without the except clause: the exception ends the thread
HandlerAbsent(t) == "terminated"

\* except Exception as e: print(...), then the statement after the try
Handler(t) == "sleep"

Except(t) ==
    /\ pc[t] = "except"
    /\ SetPc(t, Handler(t))
    /\ UNCHANGED <<refreshes, sent, shown, issued, permits, entry, idx, cycle, net, prices, on_chain_data, ret, hist_data,
                   current_data, historical_data, seen, w_local, dev_args, dev_result>>

\* time.sleep(300) / await asyncio.sleep(300), then the next iteration of
\* while True
Sleep(t) ==
    /\ pc[t] = "sleep"
    /\ cycle' = [cycle EXCEPT ![t] = NextCycle(cycle[t])]
    /\ hist_data' = [hist_data EXCEPT ![t] = EmptyFrame]
    /\ issued' = AfterSleep(t, issued)
    /\ permits' = AfterSleep(t, permits)
    /\ refreshes' = [refreshes EXCEPT ![t] = NoRefresh]
    /\ SetPc(t, "try")
    /\ UNCHANGED <<sent, shown, entry, idx, net, prices, on_chain_data, ret,
                   current_data, historical_data, seen, w_local, dev_args, dev_result>>

BuilderStep(t, nets, answers) ==
    \/ Try(t, nets)
    \/ CollectPrices(t)
    \/ CollectOnChain(t)
    \/ Aggregate(t)
    \/ HistFetch(t, answers)
    \/ HistStore(t)
    \/ Except(t)
    \/ Sleep(t)

-----------------------------------------------------------------------------
(* app.update_price_cards *)

\* the interval fires the callback
CardsFire ==
    /\ pc["cards"] = "idle"
    /\ idx' = [idx EXCEPT !["cards"] = 1]
    /\ SetPc("cards", "render")
    /\ UNCHANGED <<refreshes, sent, shown, issued, permits, entry, cycle, net, prices, on_chain_data, ret, hist_data,
                   current_data, historical_data, seen, w_local, dev_args, dev_result>>

\* one iteration of the loop over STABLECOINS.keys(): current_data is read
CardsRender ==
    /\ pc["cards"] = "render"
    /\ seen' = [seen EXCEPT !["cards"] = current_data]
    /\ IF idx["cards"] < Len(STABLECOINS)
       THEN /\ idx' = [idx EXCEPT !["cards"] = idx["cards"] + 1]
            /\ UNCHANGED pc
       ELSE /\ SetPc("cards", "return")
            /\ UNCHANGED idx
    /\ UNCHANGED <<refreshes, sent, shown, issued, permits, entry, cycle, net, prices, on_chain_data, ret, hist_data,
                   current_data, historical_data, w_local, dev_args, dev_result>>

\* return prices + changes
CardsReturn ==
    /\ pc["cards"] = "return"
    /\ seen' = [seen EXCEPT !["cards"] = Unread]
    /\ SetPc("cards", "idle")
    /\ UNCHANGED <<refreshes, sent, shown, issued, permits, entry, idx, cycle, net, prices, on_chain_data, ret, hist_data,
                   current_data, historical_data, w_local, dev_args, dev_result>>

-----------------------------------------------------------------------------
(* working_app.py.  Amounts (market cap, supply) are in units of 10^9. *)

\* get_fallback_data
get_fallback_data ==
    [USDT |-> [price |-> 1000, market_cap |-> 100, change_24h |-> 10,
               supply |-> PyInt(100), holders |-> 5000000,
               peg_deviation |-> 0, status |-> "Stable"],
     USDC |-> [price |-> 1000, market_cap |-> 50, change_24h |-> -10,
               supply |-> PyInt(50), holders |-> 2000000,
               peg_deviation |-> 0, status |-> "Stable"],
     DAI  |-> [price |-> 999, market_cap |-> 5, change_24h |-> -100,
               supply |-> PyInt(5), holders |-> 1000000,
               peg_deviation |-> -100, status |-> "Minor Deviation"]]

\* fetch_coingecko_data: the decoded body, or None on every failure path
fetch_coingecko_data(p) ==
    IF \E s \in SymbolSet : p.per[s] \in {"timeout", "malformed"} THEN None
    ELSE IF p.status # HTTP_OK THEN None
    ELSE Some(get_stablecoin_prices(p, 0))

\* fetch_etherscan_data, for a call that is answered: data['result'], a str
fetch_etherscan_data(kind) ==
    IF kind = "ok" THEN Some(PyStr(SupplyOf["USDT"])) ELSE None

\* bool(x) of an Optional dict or JSON array
Truthy(opt) == opt # None /\ \A v \in opt : v # EmptyDict

\* symbol_map.get(coin_id, coin_id.upper())
SymbolOfId(id) == CHOOSE s \in SymbolSet : Lower[s] = id

\* 1% of the peg, in units of 1/Scale
StableBand == 10

\* update_data: processed_data[symbol] = {...}
ProcessedEntry(symbol, data, etherscan_supply) ==
    [price |-> data.usd,
     market_cap |-> IF "usd_market_cap" \in DOMAIN data THEN data.usd_market_cap ELSE 0,
     change_24h |-> IF "usd_24h_change" \in DOMAIN data THEN data.usd_24h_change ELSE 0,
     supply |-> IF symbol = "USDT" /\ etherscan_supply # None
                THEN CHOOSE v \in etherscan_supply : TRUE
                ELSE PyInt(0),
     holders |-> 0,
     peg_deviation |-> Abs(data.usd - Scale),
     status |-> IF Abs(data.usd - Scale) < StableBand THEN "Stable" ELSE "Minor Deviation"]

\* update_data without the loop that fills in the fallback entries
ProcessedWithoutFill(cg, etherscan_supply) ==
    LET got == {s \in SymbolSet : Lower[s] \in DOMAIN cg /\ "usd" \in DOMAIN cg[Lower[s]]}
    IN  [s \in got |-> ProcessedEntry(s, cg[Lower[s]], etherscan_supply)]

\* update_data: the body of "if coingecko_data:" up to the fallback fill
ProcessedData(cg, etherscan_supply) ==
    LET got == {s \in SymbolSet : Lower[s] \in DOMAIN cg /\ "usd" \in DOMAIN cg[Lower[s]]}
    IN  [s \in SymbolSet |->
            IF s \in got THEN ProcessedEntry(s, cg[Lower[s]], etherscan_supply)
            ELSE get_fallback_data[s]]

\* locals of update_data between two cycles
WIdle == [coingecko_data |-> None, etherscan_supply |-> None]

\* update_data: current_data = get_fallback_data(), before the loop
WInit ==
    /\ pc["wa"] = "init"
    /\ current_data' = StoreGlobal(current_data, get_fallback_data)
    /\ SetPc("wa", "try")
    /\ UNCHANGED <<refreshes, sent, shown, issued, permits, entry, idx, cycle, net, prices, on_chain_data, ret, hist_data,
                   historical_data, seen, w_local, dev_args, dev_result>>

\* coingecko_data = loop.run_until_complete(fetch_coingecko_data());
\* asyncio.new_event_loop may raise
WFetchCoinGecko(nets) ==
    /\ pc["wa"] = "try"
    /\ \E n \in nets, raised \in BOOLEAN :
          IF raised
          THEN /\ SetPc("wa", "except")
               /\ UNCHANGED <<net, w_local, issued, sent>>
          ELSE /\ net' = [net EXCEPT !["wa"] = n]
               /\ Issue("wa", 1)
               /\ Send({Request("coingecko", FALSE)})
               /\ w_local' = [w_local EXCEPT !.coingecko_data = fetch_coingecko_data(n.price)]
               /\ SetPc("wa", "fetch_es")
    /\ UNCHANGED <<refreshes, shown, permits, entry, idx, cycle, prices, on_chain_data, ret, hist_data,
                   current_data, historical_data, seen, dev_args, dev_result>>

\* etherscan_supply = fetch_etherscan_data()
WFetchEtherscan ==
    /\ pc["wa"] = "fetch_es"
    /\ LET kind == net["wa"].chain["USDT"].supply
       IN  IF RequestsGetReturns(kind)
           THEN /\ w_local' = [w_local EXCEPT !.etherscan_supply = fetch_etherscan_data(kind)]
                /\ SetPc("wa", "process")
           ELSE /\ SetPc("wa", "blocked")
                /\ UNCHANGED w_local
    /\ net' = [net EXCEPT !["wa"] = NetAllOk]
    /\ Send({Request("etherscan", FALSE)})
    /\ UNCHANGED <<refreshes, shown, issued, permits, entry, idx, cycle, prices, on_chain_data, ret, hist_data,
                   current_data, historical_data, seen, dev_args, dev_result>>

\* a failed fetch answered by going back to the fallback data
FallbackAfterFailedFetch(cd) == get_fallback_data

\* else: print("Using fallback data - API not responding"); current_data is
\* not assigned
AfterFailedFetch(cd) == cd

\* if coingecko_data: ... current_data = processed_data; .items() raises on a
\* body that is no JSON object
WProcess ==
    /\ pc["wa"] = "process"
    /\ IF Truthy(w_local.coingecko_data)
       THEN LET cg == CHOOSE v \in w_local.coingecko_data : TRUE
            IN  IF IsDict(cg)
                THEN /\ current_data' =
                           StoreGlobal(current_data,
                                       ProcessedData(cg, w_local.etherscan_supply))
                     /\ SetPc("wa", "sleep")
                ELSE /\ SetPc("wa", "except")
                     /\ UNCHANGED current_data
       ELSE /\ SetPc("wa", "sleep")
            /\ current_data' = AfterFailedFetch(current_data)
    /\ w_local' = WIdle
    /\ UNCHANGED <<refreshes, sent, shown, issued, permits, entry, idx, cycle, net, prices, on_chain_data, ret, hist_data,
                   historical_data, seen, dev_args, dev_result>>

\* except Exception as e: print(...)
WExcept ==
    /\ pc["wa"] = "except"
    /\ SetPc("wa", Handler("wa"))
    /\ UNCHANGED <<refreshes, sent, shown, issued, permits, entry, idx, cycle, net, prices, on_chain_data, ret, hist_data,
                   current_data, historical_data, seen, w_local, dev_args, dev_result>>

\* time.sleep(60), then the next iteration of while True
WSleep ==
    /\ pc["wa"] = "sleep"
    /\ issued' = AfterSleep("wa", issued)
    /\ SetPc("wa", "try")
    /\ UNCHANGED <<refreshes, sent, shown, permits, entry, idx, cycle, net, prices, on_chain_data, ret, hist_data,
                   current_data, historical_data, seen, w_local, dev_args, dev_result>>

WLoopStep(nets) ==
    \/ WInit
    \/ WFetchCoinGecko(nets)
    \/ WFetchEtherscan
    \/ WProcess
    \/ WExcept
    \/ WSleep

WStep == WLoopStep(WNetConditions)

-----------------------------------------------------------------------------
(* working_app.update_dashboard *)

\* the interval fires the callback
DashFire ==
    /\ pc["dash"] = "idle"
    /\ SetPc("dash", "check")
    /\ UNCHANGED <<refreshes, sent, shown, issued, permits, entry, idx, cycle, net, prices, on_chain_data, ret, hist_data,
                   current_data, historical_data, seen, w_local, dev_args, dev_result>>

\* if not current_data:
DashCheck ==
    /\ pc["dash"] = "check"
    /\ SetPc("dash", IF current_data = EmptyDict THEN "assign" ELSE "render")
    /\ idx' = [idx EXCEPT !["dash"] = 1]
    /\ UNCHANGED <<refreshes, sent, shown, issued, permits, entry, cycle, net, prices, on_chain_data, ret, hist_data,
                   current_data, historical_data, seen, w_local, dev_args, dev_result>>

\* current_data = get_fallback_data()
DashAssign ==
    /\ pc["dash"] = "assign"
    /\ current_data' = StoreGlobal(current_data, get_fallback_data)
    /\ SetPc("dash", "render")
    /\ UNCHANGED <<refreshes, sent, shown, issued, permits, entry, idx, cycle, net, prices, on_chain_data, ret, hist_data,
                   historical_data, seen, w_local, dev_args, dev_result>>

\* one iteration of the loop over STABLECOINS.keys():
\* data = current_data.get(symbol, {})
DashRender ==
    /\ pc["dash"] = "render"
    /\ seen' = [seen EXCEPT !["dash"] = current_data]
    /\ IF idx["dash"] < Len(STABLECOINS)
       THEN /\ idx' = [idx EXCEPT !["dash"] = idx["dash"] + 1]
            /\ UNCHANGED pc
       ELSE /\ SetPc("dash", "return")
            /\ UNCHANGED idx
    /\ UNCHANGED <<refreshes, sent, shown, issued, permits, entry, cycle, net, prices, on_chain_data, ret, hist_data,
                   current_data, historical_data, w_local, dev_args, dev_result>>

\* return outputs
DashReturn ==
    /\ pc["dash"] = "return"
    /\ seen' = [seen EXCEPT !["dash"] = Unread]
    /\ SetPc("dash", "idle")
    /\ UNCHANGED <<refreshes, sent, shown, issued, permits, entry, idx, cycle, net, prices, on_chain_data, ret, hist_data,
                   current_data, historical_data, w_local, dev_args, dev_result>>

-----------------------------------------------------------------------------
(* The state after the modules are loaded and the threads are started *)

InitPc(e) ==
    [t \in Threads |->
        IF t \notin Started(e) THEN "off"
        ELSE IF t \in Builders THEN "try"
        ELSE IF t = "wa" THEN "init"
        ELSE "idle"]

\* snaps[e] are the values of current_data and stores the values of
\* historical_data the program is started from
InitAt(entries, calls, snaps, stores) ==
    /\ entry \in entries
    /\ current_data \in snaps[entry]
    /\ pc = [t \in Threads |->
                IF InitPc(entry)[t] = "init" /\ current_data # EmptyDict THEN "try"
                ELSE InitPc(entry)[t]]
    /\ idx = [t \in Threads |-> 1]
    /\ cycle = [t \in Builders |-> 0]
    /\ net = [t \in Loops |-> NetAllOk]
    /\ prices = [t \in Builders |-> EmptyDict]
    /\ on_chain_data = [t \in Builders |-> EmptyDict]
    /\ ret = [t \in Builders |-> EmptyDict]
    /\ hist_data = [t \in Builders |-> EmptyFrame]
    /\ historical_data \in stores
    /\ seen = [t \in {"cards", "dash"} |-> Unread]
    /\ w_local = WIdle
    /\ dev_args \in calls
    /\ dev_result = Pending
    /\ shown = [c \in Callbacks |-> NotRun]
    /\ issued = [t \in Loops |-> 0]
    /\ permits = [t \in Builders |-> 0]
    /\ sent = {}
    /\ refreshes = [t \in Builders |-> NoRefresh]

\* the state right after the modules are loaded: both globals are {}
InitOf(entries, calls) ==
    InitAt(entries, calls, [e \in entries |-> {EmptyDict}], {EmptyDict})

\* app.py or working_app.py is launched and a browser shows the dashboard
Init == InitOf({"app.py", "working_app.py"}, {<< >>})

Next ==
    \/ \E t \in Builders : BuilderStep(t, NetConditions, HistAnswers)
    \/ Publish
    \/ CardsFire
    \/ CardsRender
    \/ CardsReturn
    \/ WStep
    \/ DashFire
    \/ DashCheck
    \/ DashAssign
    \/ DashRender
    \/ DashReturn

Spec == Init /\ [][Next]_vars

-----------------------------------------------------------------------------
(* test_dashboard.test_data_collectors: the anomaly detector is called on   *)
(* its own, no thread is started.  The arguments are drawn from a grid.     *)

DevPrices == {0} \cup ((Scale - PriceWindow) .. (Scale + PriceWindow))

DevTargets == {-Scale, -1, 0, 1, Scale \div 2, Scale, 2 * Scale}

DevCalls == {<<p>> : p \in DevPrices} \cup {<<p, t>> : p \in DevPrices, t \in DevTargets}

InitDev == InitOf({"test_dashboard.py"}, DevCalls)

\* deviation = aggregator.calculate_peg_deviation(...)
Deviation ==
    /\ dev_result = Pending
    /\ dev_result' = CallDeviation(dev_args)
    /\ UNCHANGED <<refreshes, sent, shown, issued, permits, entry, pc, idx, cycle, net, prices, on_chain_data, ret, hist_data,
                   current_data, historical_data, seen, w_local, dev_args>>

NextDev == Deviation

DevSpec == InitDev /\ [][NextDev]_vars

-----------------------------------------------------------------------------
(* test_dashboard.test_data_collectors: the call of detect_anomalies, with  *)
(* series of at most MaxSeries prices, and update_price_chart of app.py.    *)

\* the test's 0.99, 1.01 and 1.03, the peg, and the prices on and next to the
\* boundary 0.02
AnomPrices ==
    {0, Scale - 20, Scale - 10, Scale, Scale + 10, Scale + 20, Scale + 21, Scale + 30}

AnomThresholds == {-1, 0, WatchBoundary, ANOMALY_THRESHOLD}

RECURSIVE SeriesUpTo(_)
SeriesUpTo(n) ==
    IF n = 0 THEN {<< >>}
    ELSE LET shorter == SeriesUpTo(n - 1)
         IN  shorter \cup {Append(q, p) : q \in {x \in shorter : Len(x) = n - 1},
                                          p \in AnomPrices}

AnomCalls == {<<q, th>> : q \in SeriesUpTo(MaxSeries), th \in AnomThresholds}

InitAnom == InitOf({"test_dashboard.py"}, AnomCalls)

\* anomalies = aggregator.detect_anomalies(prices, threshold)
Detect ==
    /\ dev_result = Pending
    /\ dev_result' = [anomalies |-> detect_anomalies(dev_args[1], dev_args[2])]
    /\ UNCHANGED <<refreshes, sent, shown, issued, permits, entry, pc, idx, cycle, net, prices,
                   on_chain_data, ret, hist_data, current_data, historical_data, seen,
                   w_local, dev_args>>

NextAnom == Detect

AnomSpec == InitAnom /\ [][NextAnom]_vars

-----------------------------------------------------------------------------
(* Properties *)

IsSnapshot(v) == "timestamp" \in DOMAIN v

\* every price entry and every on-chain entry of v was fetched in the cycle
\* that stamped v
FromOneCycle(v) ==
    IsSnapshot(v) =>
        /\ \A id \in DOMAIN v.prices : v.prices[id].cyc = v.timestamp
        /\ \A s \in DOMAIN v.on_chain : v.on_chain[s].cyc = v.timestamp

\* C1: whatever the interleaving of update_data and the callbacks, a value a
\* callback obtained from current_data holds the timestamp, the price entries
\* and the on-chain entries of one collection cycle only.
C1_SnapshotFromOneCycle == \A r \in DOMAIN seen : FromOneCycle(seen[r])

\* C1, witness: update_price_cards holds a snapshot with price and on-chain
\* entries of one cycle while update_data is about to publish the snapshot of
\* another cycle.
C1_ReadDuringPublish ==
    /\ pc["app"] = "publish"
    /\ IsSnapshot(seen["cards"])
    /\ seen["cards"].prices # EmptyDict
    /\ seen["cards"].on_chain # EmptyDict
    /\ IsSnapshot(ret["app"])
    /\ ret["app"].timestamp # seen["cards"].timestamp

\* C2: current_data has one writer: every step that changes current_data is a
\* step of the update loop (app.update_data or working_app.update_data), never
\* a step of a reader callback.
C2_SingleWriter ==
    [][current_data' # current_data => (pc'["app"] # pc["app"] \/ pc'["wa"] # pc["wa"])]_vars

\* C3: a history fetch that returned its failure value (the empty frame) for
\* the instrument at hand leaves historical_data, and so the stored series of
\* that instrument, exactly as it was.
C3_FailedFetchKeepsSeries ==
    [][(pc["app"] = "hist_store" /\ IsEmptyFrame(hist_data["app"]))
          => historical_data' = historical_data]_vars

\* C3, witness: in this cycle the fetch for USDT returned the empty frame and
\* the series stored for USDT by an earlier cycle is still there.
C3_SeededThenFailed ==
    /\ pc["app"] = "hist_fetch"
    /\ idx["app"] = 2
    /\ IsEmptyFrame(hist_data["app"])
    /\ "USDT" \in DOMAIN historical_data
    /\ ~IsEmptyFrame(historical_data["USDT"])

\* C4: in each of the three update loops, a cycle that ended, in the except
\* clause or normally, is followed by the start of another cycle: the loop is
\* never terminated by an exception.
C4_LoopContinues ==
    \A t \in Loops : (pc[t] \in {"except", "sleep"}) ~> (pc[t] = "try")

\* C4, witness: app.update_data is in its except clause after the history
\* refresh of the second instrument raised, and collect_data of run_local is
\* in its except clause too.
C4_CycleFailed ==
    /\ pc["app"] = "except"
    /\ idx["app"] = 2
    /\ pc["rl"] = "except"

\* the fetches that fail under the condition n, as <<instrument, axis>>
FailedFetches(n) ==
    {<<s, "price">> : s \in {x \in SymbolSet : n.price.per[x] # "ok" \/ n.price.status # HTTP_OK}}
    \cup {<<s, "supply">> : s \in {x \in SymbolSet : n.chain[x].supply # "ok"}}
    \cup {<<s, "holders">> : s \in {x \in SymbolSet : n.chain[x].holders # "ok"}}

\* C5: when exactly one fetch (one instrument, one axis) fails in a cycle,
\* collect_all_data returns a snapshot in which that instrument is omitted from
\* the map of that axis, and every other entry is present with its fetched
\* value.
C5_FailureOmitsOnlyThatEntry ==
    (pc["app"] = "publish" /\ Cardinality(FailedFetches(net["app"])) = 1) =>
        LET f == CHOOSE x \in FailedFetches(net["app"]) : TRUE
            snap == ret["app"]
        IN  /\ IsSnapshot(snap)
            /\ f[2] = "price" => Lower[f[1]] \notin DOMAIN snap.prices
            /\ f[2] # "price" => f[1] \notin DOMAIN snap.on_chain
            /\ \A s \in SymbolSet \ {f[1]} :
                  /\ Lower[s] \in DOMAIN snap.prices
                  /\ snap.prices[Lower[s]] = PriceObject(s, "ok", snap.timestamp)
                  /\ s \in DOMAIN snap.on_chain
                  /\ snap.on_chain[s].supply = Some(SupplyOf[s])
                  /\ snap.on_chain[s].holders = Some(HoldersOf[s])

\* C6: when every source call of a cycle fails, the snapshot returned by
\* collect_all_data for publication has an empty price map and an empty
\* on-chain map, carries a timestamp and differs from the initial {}.
C6_AllFailedGivesEmptyMaps ==
    (pc["app"] = "publish"
        /\ FailedFetches(net["app"]) = SymbolSet \X {"price", "supply", "holders"}) =>
        /\ IsSnapshot(ret["app"])
        /\ ret["app"] # EmptyDict
        /\ ret["app"].prices = EmptyDict
        /\ ret["app"].on_chain = EmptyDict

\* C7: when the price source succeeds for USDT, times out for USDC and delivers
\* a malformed payload for DAI, the price map of the returned snapshot holds
\* USDT only and the on-chain map is what the on-chain calls delivered.
C7_PriceMapHoldsOnlyUsdt ==
    (pc["app"] = "publish"
        /\ net["app"].price.status = HTTP_OK
        /\ net["app"].price.per = [USDT |-> "ok", USDC |-> "timeout", DAI |-> "malformed"]) =>
        /\ IsSnapshot(ret["app"])
        /\ DOMAIN ret["app"].prices = {Lower["USDT"]}
        /\ ret["app"].on_chain =
              [s \in SymbolSet |-> OnChainEntry(s, net["app"].chain[s], ret["app"].timestamp)]

\* C8: a snapshot collection that has started and has not returned can always
\* take its next step: it never waits for an upstream that will not answer.
C8_CollectionNeverWaitsForever ==
    (pc["app"] \in {"prices", "chain", "aggregate", "blocked"}) =>
        ENABLED BuilderStep("app", NetConditions, HistAnswers)

\* the target of the call dev_args
TargetOf(args) == IF Len(args) = 1 THEN Scale ELSE args[2]

\* C9: for a price >= 0 and a target > 0 (1.0 when omitted) the call returns
\* |price - target| / target; it returns 0 for (1.0, 1.0) and 0.02 for
\* (1.02, 1.0).
C9_DeviationValue ==
    (dev_result # Pending /\ TargetOf(dev_args) > 0) =>
        LET p == dev_args[1]
            t == TargetOf(dev_args)
            dist == IF p >= t THEN p - t ELSE t - p
        IN  /\ Returned(dev_result)
            /\ dev_result.den > 0
            /\ dev_result.num >= 0
            /\ dev_result.num * t = dist * dev_result.den
            /\ (p = Scale /\ t = Scale) => dev_result.num = 0
            /\ (50 * p = 51 * Scale /\ t = Scale) => 50 * dev_result.num = dev_result.den

\* C9, witness: calculate_peg_deviation(1.02), the target omitted, has
\* returned 0.02.
C9_DefaultTargetCall ==
    /\ Len(dev_args) = 1
    /\ 50 * dev_args[1] = 51 * Scale
    /\ Returned(dev_result)
    /\ 50 * dev_result.num = dev_result.den

\* C10: for every target <= 0 the call fails with InvalidTarget and returns no
\* value.
C10_InvalidTargetRaised ==
    (dev_result # Pending /\ TargetOf(dev_args) <= 0) =>
        dev_result = [raises |-> "InvalidTarget"]

-----------------------------------------------------------------------------
(* The update loops alone (no browser is connected, so no callback fires),  *)
(* for each of the three entry points, under fair scheduling of the         *)
(* threads: a thread that can take a step eventually takes one.             *)

InitLive == InitOf(EntryPoints, {<< >>})

AppStep == BuilderStep("app", FewNetConditions, FewHistAnswers) \/ Publish

RlStep == BuilderStep("rl", FewNetConditions, FewHistAnswers) \/ Report

WaStep == WLoopStep(FewNetConditions \cup {NetArray})

NextLive ==
    \/ AppStep
    \/ RlStep
    \/ WaStep

LiveSpec ==
    /\ InitLive
    /\ [][NextLive]_vars
    /\ WF_vars(AppStep)
    /\ WF_vars(RlStep)
    /\ WF_vars(WaStep)

-----------------------------------------------------------------------------
(* test_api.py and the clients on their own: one source client is called    *)
(* with one answer of its upstream.                                         *)

\* HTTP statuses of an answer
Statuses == {HTTP_OK, 429, 500}

\* answers of /simple/price
PriceAnswers ==
    {[status |-> st, shape |-> sh, per |-> per] :
        st \in Statuses, sh \in {"object", "array"},
        per \in {AllSym(k) : k \in PriceKinds} \cup {NetPriceMixed.price.per, NetPartial.price.per}}

\* answers of the DeFiLlama endpoints: fault is an exception raised by the
\* call, body the decoded JSON of a 200 answer
TvlAnswers ==
    {[fault |-> f, status |-> st, body |-> b] :
        f \in BOOLEAN, st \in Statuses, b \in {[tvl |-> 1], EmptyDict, JsonArray}}

\* DeFiLlamaCollector.get_protocol_tvl
get_protocol_tvl(a) ==
    IF a.fault THEN EmptyDict
    ELSE IF a.status = HTTP_OK THEN a.body
    ELSE EmptyDict

\* DeFiLlamaCollector.get_stablecoin_tvl
get_stablecoin_tvl(a) ==
    IF a.fault THEN EmptyDict
    ELSE IF a.status = HTTP_OK THEN a.body
    ELSE EmptyDict

\* the calls: <<client, instrument, answer of the upstream>>
ClientCalls ==
    {<<"get_stablecoin_prices", "USDT", a>> : a \in PriceAnswers}
    \cup {<<"get_historical_prices", sym, a>> : sym \in SymbolSet, a \in HistAnswers}
    \cup {<<"get_protocol_tvl", "USDT", a>> : a \in TvlAnswers}
    \cup {<<"get_stablecoin_tvl", "USDT", a>> : a \in TvlAnswers}
    \cup {<<"get_token_supply", sym, k>> : sym \in SymbolSet, k \in ChainKinds}
    \cup {<<"get_token_holders", sym, k>> : sym \in SymbolSet, k \in ChainKinds}

\* the value the client args[1] returns for the answer args[3]
ClientResult(args) ==
    LET client == args[1]
    IN  IF client = "get_stablecoin_prices" THEN get_stablecoin_prices(args[3], 0)
        ELSE IF client = "get_historical_prices" THEN get_historical_prices(args[2], args[3])
        ELSE IF client = "get_protocol_tvl" THEN get_protocol_tvl(args[3])
        ELSE IF client = "get_stablecoin_tvl" THEN get_stablecoin_tvl(args[3])
        ELSE IF client = "get_token_supply" THEN get_token_supply(args[2], args[3])
        ELSE get_token_holders(args[2], args[3])

\* the upstream a client sends its request to
SourceOf(client) ==
    IF client \in {"get_stablecoin_prices", "get_historical_prices"} THEN "coingecko"
    ELSE IF client \in {"get_protocol_tvl", "get_stablecoin_tvl"} THEN "defillama"
    ELSE "etherscan"

\* the clients whose session.get is inside "async with self.throttler"
Throttled(client) == client \in {"get_stablecoin_prices", "get_historical_prices"}

\* the Etherscan clients go through requests.get, the others through aiohttp
UsesRequests(client) == client \in {"get_token_supply", "get_token_holders"}

InitClient == InitOf({"test_api.py"}, ClientCalls)

\* the call returns
CallClient ==
    /\ dev_result = Pending
    /\ UsesRequests(dev_args[1]) => RequestsGetReturns(dev_args[3])
    /\ dev_result' = [returns |-> ClientResult(dev_args)]
    /\ Send({Request(SourceOf(dev_args[1]), Throttled(dev_args[1]))})
    /\ UNCHANGED <<refreshes, shown, issued, permits, entry, pc, idx, cycle, net, prices,
                   on_chain_data, ret, hist_data, current_data, historical_data, seen,
                   w_local, dev_args>>

NextClient == CallClient

ClientSpec == InitClient /\ [][NextClient]_vars

-----------------------------------------------------------------------------
(* app.py: what the callbacks compute from the globals they read.  The      *)
(* dashboard is looked at in a state in which the globals hold a snapshot   *)
(* and the series of an earlier cycle; each callback is one step.           *)

\* d.get(key, default)
Get(d, key, default) == IF key \in DOMAIN d THEN d[key] ELSE default

\* if current_data and 'prices' in current_data
HasKey(cd, key) == cd # EmptyDict /\ key \in DOMAIN cd

\* update_price_cards with >= for >
PriceColourInclusive(price) ==
    LET deviation == Abs(price - Scale)
    IN  IF deviation >= ANOMALY_THRESHOLD THEN "text-danger"
        ELSE IF deviation > WatchBoundary THEN "text-warning"
        ELSE "text-success"

\* update_price_cards: colour coding based on peg deviation
PriceColour(price) ==
    LET deviation == Abs(price - Scale)
    IN  IF deviation > ANOMALY_THRESHOLD THEN "text-danger"
        ELSE IF deviation > WatchBoundary THEN "text-warning"
        ELSE "text-success"

\* update_price_cards: the Span of one instrument, or "Loading..."
PriceCard(cd, symbol) ==
    IF HasKey(cd, "prices") /\ Lower[symbol] \in DOMAIN cd.prices
    THEN LET price == Get(cd.prices[Lower[symbol]], "usd", 0)
         IN  [text |-> price, className |-> PriceColour(price)]
    ELSE [loading |-> TRUE]

\* update_price_cards
PriceCards ==
    /\ "cards" \in Started(entry)
    /\ shown' = [shown EXCEPT !["cards"] = [s \in SymbolSet |-> PriceCard(current_data, s)]]
    /\ UNCHANGED <<refreshes, sent, issued, permits, entry, pc, idx, cycle, net, prices, on_chain_data,
                   ret, hist_data, current_data, historical_data, seen, w_local,
                   dev_args, dev_result>>

\* update_stability_analysis with >= for > in the first test
StabilityStatusInclusive(price) ==
    LET deviation == Abs(price - Scale)
    IN  [deviation |-> deviation,
         status |-> IF deviation >= ANOMALY_THRESHOLD THEN "Unstable"
                    ELSE IF deviation > WatchBoundary THEN "Watch"
                    ELSE "Stable"]

\* update_stability_analysis: deviation and status of one price
StabilityStatus(price) ==
    LET deviation == Abs(price - Scale)
    IN  [deviation |-> deviation,
         status |-> IF deviation > ANOMALY_THRESHOLD THEN "Unstable"
                    ELSE IF deviation > WatchBoundary THEN "Watch"
                    ELSE "Stable"]

\* update_stability_analysis: one block per instrument that has a price entry
StabilityBlocks(cd) ==
    IF ~HasKey(cd, "prices") THEN [loading |-> TRUE]
    ELSE [s \in {x \in SymbolSet : Lower[x] \in DOMAIN cd.prices} |->
             StabilityStatus(Get(cd.prices[Lower[s]], "usd", 0))]

\* update_stability_analysis
StabilityAnalysis ==
    /\ "cards" \in Started(entry)
    /\ shown' = [shown EXCEPT !["stability"] = StabilityBlocks(current_data)]
    /\ UNCHANGED <<refreshes, sent, issued, permits, entry, pc, idx, cycle, net, prices, on_chain_data,
                   ret, hist_data, current_data, historical_data, seen, w_local,
                   dev_args, dev_result>>

\* update_price_chart: the figure for the selected instrument: the price
\* trace, the flags of the column 'anomaly' and the anomaly markers
PriceChartFigure(store, selected) ==
    IF selected \notin DOMAIN store \/ IsEmptyFrame(store[selected])
    THEN [annotation |-> "No data available"]
    ELSE LET df == store[selected]
             anomalies == detect_anomalies([i \in 1..Len(df) |-> df[i].price],
                                           ANOMALY_THRESHOLD)
         IN  [title |-> selected,
              x |-> [i \in 1..Len(df) |-> df[i].timestamp],
              y |-> [i \in 1..Len(df) |-> df[i].price],
              anomaly |-> anomalies,
              markers |-> {df[i].timestamp : i \in {k \in 1..Len(df) : anomalies[k]}}]

\* update_price_chart
PriceChart ==
    /\ "cards" \in Started(entry)
    /\ \E selected \in SymbolSet :
          shown' = [shown EXCEPT !["chart"] = PriceChartFigure(historical_data, selected)]
    /\ UNCHANGED <<refreshes, sent, issued, permits, entry, pc, idx, cycle, net, prices, on_chain_data,
                   ret, hist_data, current_data, historical_data, seen, w_local,
                   dev_args, dev_result>>

\* update_dashboard of working_app.py: the outputs of one instrument.  The
\* comparison supply > 0 raises TypeError for a str.
DashboardCard(data) ==
    LET price == Get(data, "price", Scale)
        change_24h == Get(data, "change_24h", 0)
        market_cap == Get(data, "market_cap", 0)
        supply == Get(data, "supply", PyInt(0))
        status == Get(data, "status", "Stable")
    IN  IF "str" \in DOMAIN supply THEN [raises |-> "TypeError"]
        ELSE [price |-> price,
              change_24h |-> change_24h,
              market_cap |-> IF market_cap > 0 THEN Some(market_cap) ELSE None,
              supply |-> IF supply.int > 0 THEN Some(supply.int) ELSE None,
              status |-> status,
              color |-> IF status = "Stable" THEN "success" ELSE "warning"]

\* update_dashboard: the outputs for the value cd of current_data
DashboardOutputs(cd) ==
    LET cards == [s \in SymbolSet |-> DashboardCard(Get(cd, s, EmptyDict))]
    IN  IF \E s \in SymbolSet : "raises" \in DOMAIN cards[s]
        THEN [raises |-> "TypeError"]
        ELSE [cards |-> cards,
              table_rows |-> [s \in SymbolSet |->
                                 [price |-> cards[s].price,
                                  change_24h |-> cards[s].change_24h,
                                  status |-> cards[s].status]]]

\* update_dashboard of working_app.py
Dashboard ==
    /\ "dash" \in Started(entry)
    /\ current_data' = IF current_data = EmptyDict
                       THEN StoreGlobal(current_data, get_fallback_data)
                       ELSE current_data
    /\ shown' = [shown EXCEPT !["dashboard"] = DashboardOutputs(current_data')]
    /\ UNCHANGED <<refreshes, sent, issued, permits, entry, pc, idx, cycle, net, prices, on_chain_data,
                   ret, hist_data, historical_data, seen, w_local, dev_args, dev_result>>

\* "N/A"
Unavailable == [unavailable |-> TRUE]

\* if supply: f"{supply:,.0f}" else "N/A"; None and 0 are both false
Formatted(opt) ==
    IF opt # None /\ opt # Some(0) THEN [number |-> CHOOSE v \in opt : TRUE]
    ELSE Unavailable

\* update_supply_metrics: the Div of each symbol in current_data['on_chain'],
\* or "Loading supply data..."
SupplyMetrics(cd) ==
    IF HasKey(cd, "on_chain")
    THEN [s \in SymbolSet \cap DOMAIN cd.on_chain |->
             [supply  |-> Formatted(Get(cd.on_chain[s], "supply", Some(0))),
              holders |-> Formatted(Get(cd.on_chain[s], "holders", Some(0)))]]
    ELSE [loading |-> TRUE]

\* update_supply_metrics
SupplyMetricsShown ==
    /\ "cards" \in Started(entry)
    /\ shown' = [shown EXCEPT !["supply"] = SupplyMetrics(current_data)]
    /\ UNCHANGED <<refreshes, sent, issued, permits, entry, pc, idx, cycle, net, prices, on_chain_data,
                   ret, hist_data, current_data, historical_data, seen, w_local,
                   dev_args, dev_result>>

\* update_metrics_table: one row per symbol of current_data.get('prices', {}),
\* "Loading metrics..." or "No data available"
MetricsRows(cd) ==
    LET pr == Get(cd, "prices", EmptyDict)
        oc == Get(cd, "on_chain", EmptyDict)
        listed == {s \in SymbolSet : Lower[s] \in DOMAIN pr}
    IN  IF cd = EmptyDict THEN [loading |-> TRUE]
        ELSE IF listed = {} THEN [no_data |-> TRUE]
        ELSE [s \in listed |->
                 [Price   |-> Get(pr[Lower[s]], "usd", 0),
                  Supply  |-> Formatted(Get(Get(oc, s, EmptyDict), "supply", None)),
                  Holders |-> Formatted(Get(Get(oc, s, EmptyDict), "holders", None))]]

\* update_metrics_table
MetricsTable ==
    /\ "cards" \in Started(entry)
    /\ shown' = [shown EXCEPT !["table"] = MetricsRows(current_data)]
    /\ UNCHANGED <<refreshes, sent, issued, permits, entry, pc, idx, cycle, net, prices, on_chain_data,
                   ret, hist_data, current_data, historical_data, seen, w_local,
                   dev_args, dev_result>>

\* the upstream conditions of the cycle that built the snapshot on display
ViewNets == {NetAllOk, NetPartial, NetSupplyDown, NetAllDown}

\* the price answer pr with the quote usd for USDT
Quoted(pr, usd) ==
    IF IsDict(pr) /\ "usdt" \in DOMAIN pr /\ "usd" \in DOMAIN pr["usdt"]
    THEN [pr EXCEPT !["usdt"].usd = usd]
    ELSE pr

\* collect_all_data under the condition n with USDT quoted at q
SnapshotOf(n, q) ==
    AggregatedData(NCycles - 1, Quoted(get_stablecoin_prices(n.price, NCycles - 1), q),
                   [s \in SymbolSet |-> OnChainEntry(s, n.chain[s], NCycles - 1)])

\* the values app.update_data may have left in current_data
AppSnapshots ==
    {EmptyDict}
    \cup {SnapshotOf(n, QuoteUsd["USDT"]) : n \in ViewNets}
    \cup {SnapshotOf(NetAllOk, q) : q \in DevPrices}

\* the values working_app.update_data may have left in current_data
WorkingSnapshots ==
    {EmptyDict, get_fallback_data} \cup
    {ProcessedData(Quoted(get_stablecoin_prices(n.price, 0), q),
                   fetch_etherscan_data(n.chain["USDT"].supply)) :
        n \in {NetAllOk, NetPartial, NetSupplyDown}, q \in DevPrices}

ViewSnapshots ==
    [e \in {"app.py", "working_app.py"} |->
        IF e = "app.py" THEN AppSnapshots ELSE WorkingSnapshots]

\* the values app.update_data may have left in historical_data: nothing, or a
\* series for USDT
ViewStores ==
    {EmptyDict}
    \cup {StoreHistory(EmptyDict, "USDT", HistFrame("USDT", p)) : p \in HistPayloads}
    \cup {StoreHistory(EmptyDict, "USDT",
                       HistFrame("USDT", << <<0, q>>, <<MsPerDay, Scale>> >>)) :
            q \in DevPrices}

InitView == InitAt({"app.py", "working_app.py"}, {<< >>}, ViewSnapshots, ViewStores)

NextView ==
    \/ PriceCards
    \/ StabilityAnalysis
    \/ PriceChart
    \/ SupplyMetricsShown
    \/ MetricsTable
    \/ Dashboard

ViewSpec == InitView /\ [][NextView]_vars

-----------------------------------------------------------------------------
(* Properties of the classification and of the anomaly detector *)

\* the price the snapshot cd holds for s, as the callbacks read it
UsdOf(cd, s) == Get(cd.prices[Lower[s]], "usd", 0)

\* the tier a class name of a price card stands for
TierOfColour(className) ==
    IF className = "text-danger" THEN "Unstable"
    ELSE IF className = "text-warning" THEN "Watch"
    ELSE "Stable"

\* C11: the status update_stability_analysis shows for a price with deviation
\* d from 1.0 is Unstable iff d > 0.02, Watch iff 0.005 < d <= 0.02 and Stable
\* iff d <= 0.005, and the colour update_price_cards gives the same price
\* stands for the same tier.
C11_TierBoundaries ==
    /\ "loading" \notin DOMAIN shown["stability"] /\ shown["stability"] # NotRun =>
          \A s \in DOMAIN shown["stability"] :
              LET p == UsdOf(current_data, s)
                  d == IF p >= Scale THEN p - Scale ELSE Scale - p
                  status == shown["stability"][s].status
              IN  /\ status = "Unstable" <=> 50 * d > Scale
                  /\ status = "Watch" <=> (200 * d > Scale /\ 50 * d <= Scale)
                  /\ status = "Stable" <=> 200 * d <= Scale
    /\ (shown["cards"] # NotRun /\ shown["stability"] # NotRun) =>
          \A s \in SymbolSet :
              "className" \in DOMAIN shown["cards"][s] =>
                  /\ s \in DOMAIN shown["stability"]
                  /\ TierOfColour(shown["cards"][s].className) = shown["stability"][s].status

\* C11, witness: USDT is quoted at 1.02, a deviation of exactly 0.02: the
\* stability analysis shows Watch and the price card is coloured as a warning.
C11_WatchAtBoundary ==
    /\ shown["stability"] # NotRun
    /\ "USDT" \in DOMAIN shown["stability"]
    /\ 50 * (UsdOf(current_data, "USDT") - Scale) = Scale
    /\ shown["stability"]["USDT"].status = "Watch"
    /\ shown["cards"] # NotRun
    /\ shown["cards"]["USDT"] = [text |-> UsdOf(current_data, "USDT"), className |-> "text-warning"]

PegTargets == {Scale \div 2, Scale, 2 * Scale}

C14_FlaggedIffUnstable ==
    ("anomaly" \in DOMAIN shown["chart"]
        /\ shown["stability"] # NotRun /\ "loading" \notin DOMAIN shown["stability"]) =>
        \A i \in DOMAIN shown["chart"].y :
            \A s \in DOMAIN shown["stability"] :
                shown["chart"].y[i] = UsdOf(current_data, s) =>
                    (shown["chart"].anomaly[i] <=> shown["stability"][s].status = "Unstable")

\* C14, witness: USDT stands at 1.02 in the snapshot and in the first sample
\* of its series: the status is Watch and the sample is not flagged, while
\* USDC at 1.021 has the status Unstable.
C14_WatchNotFlagged ==
    /\ "anomaly" \in DOMAIN shown["chart"]
    /\ shown["stability"] # NotRun
    /\ DOMAIN shown["stability"] = SymbolSet
    /\ 50 * (UsdOf(current_data, "USDT") - Scale) = Scale
    /\ shown["chart"].y[1] = UsdOf(current_data, "USDT")
    /\ shown["stability"]["USDT"].status = "Watch"
    /\ ~shown["chart"].anomaly[1]
    /\ shown["stability"]["USDC"].status = "Unstable"

\* C15: a current price of 1.021 is reported with the deviation 0.021 and the
\* status Unstable, a current price of 0.999 with the deviation 0.001 and the
\* status Stable: in the stability analysis of app.py and in the entries
\* working_app.py keeps in current_data.
C15_ReportedDeviationAndStatus ==
    LET Right(price, deviation, status) ==
            /\ price = Scale + 21 => (deviation = 21 /\ status = "Unstable")
            /\ price = Scale - 1 => (deviation = 1 /\ status = "Stable")
    IN  /\ (shown["stability"] # NotRun /\ "loading" \notin DOMAIN shown["stability"]) =>
              \A s \in DOMAIN shown["stability"] :
                  Right(UsdOf(current_data, s), shown["stability"][s].deviation,
                        shown["stability"][s].status)
        /\ (entry = "working_app.py" /\ shown["dashboard"] # NotRun) =>
              \A s \in DOMAIN current_data :
                  Right(current_data[s].price, current_data[s].peg_deviation,
                        current_data[s].status)

-----------------------------------------------------------------------------
(* Properties of the stored history *)

\* C16: every series stored in historical_data has strictly increasing
\* timestamps, so no two samples share a timestamp, whatever the order and the
\* duplicates of the provider's answer.
C16_StoredSeriesStrictlyIncreasing ==
    \A s \in DOMAIN historical_data :
        \A i, j \in DOMAIN historical_data[s] :
            i < j => historical_data[s][i].timestamp < historical_data[s][j].timestamp

\* C17: the step that stores a fetched, non-empty series for the instrument at
\* hand makes exactly that series the stored series of the instrument and
\* leaves the stored series of every other instrument as it was.
C17_FetchedSeriesReplacesStored ==
    [][(pc["app"] = "hist_store" /\ pc'["app"] # "hist_store"
            /\ ~IsEmptyFrame(hist_data["app"])) =>
          LET X == STABLECOINS[idx["app"]]
          IN  /\ DOMAIN historical_data' = DOMAIN historical_data \cup {X}
              /\ historical_data'[X] = hist_data["app"]
              /\ \A s \in DOMAIN historical_data \ {X} :
                    historical_data'[s] = historical_data[s]]_vars

\* C17, witness: in a later cycle the series fetched for USDT has taken the
\* place of the series stored for USDT, and the series of USDC, stored by the
\* cycle before, is still there.
C17_SeriesReplacedInLaterCycle ==
    /\ pc["app"] = "hist_fetch"
    /\ idx["app"] = 2
    /\ cycle["app"] = 1
    /\ ~IsEmptyFrame(hist_data["app"])
    /\ "USDT" \in DOMAIN historical_data
    /\ historical_data["USDT"] = hist_data["app"]
    /\ "USDC" \in DOMAIN historical_data

-----------------------------------------------------------------------------
(* Properties of the source clients *)

\* the answer of the upstream is a failure: an exception of the HTTP call
\* (connection error, timeout, undecodable body), a status other than 200, no
\* answer at all, or a body of the wrong shape
FailedCall(args) ==
    LET client == args[1]
        a == args[3]
    IN  IF client = "get_stablecoin_prices"
        THEN a.status # HTTP_OK \/ a.shape = "array"
             \/ \E sym \in SymbolSet : a.per[sym] \in {"timeout", "malformed"}
        ELSE IF client = "get_historical_prices" THEN a.fault \/ a.status # HTTP_OK
        ELSE IF UsesRequests(client) THEN a # "ok"
        ELSE a.fault \/ a.status # HTTP_OK \/ ~IsDict(a.body)

\* {} for the price and the TVL clients, the empty series, None
FailureValue(client) ==
    IF client = "get_historical_prices" THEN EmptyFrame
    ELSE IF UsesRequests(client) THEN None
    ELSE EmptyDict

\* C18: a source client never raises: whatever the failure of the network
\* call, the call returns, and it returns the failure value of the client.
C18_ClientReturnsFailureValue ==
    /\ dev_result = Pending => ENABLED CallClient
    /\ dev_result # Pending =>
          /\ "returns" \in DOMAIN dev_result
          /\ FailedCall(dev_args) => dev_result.returns = FailureValue(dev_args[1])

-----------------------------------------------------------------------------
(* Properties of the rate limit *)

RECURSIVE SumOver(_, _)
SumOver(f, S) ==
    IF S = {} THEN 0
    ELSE LET t == CHOOSE x \in S : TRUE IN f[t] + SumOver(f, S \ {t})

\* the requests sent to CoinGecko by the process within one window
RequestsInWindow == SumOver(issued, Loops)

\* C19: within one window of 60 seconds the process sends at most 50 requests
\* to CoinGecko, price and history requests together, and a call that asks
\* for a permit is not dropped: it sends its request.
C19_AtMostFiftyRequestsPerWindow ==
    /\ [](RequestsInWindow <= rate_limit)
    /\ \A t \in Builders : (pc[t] = "prices") ~> (pc[t] = "chain" /\ issued[t] > 0)

\* both collectors of run_local.py have sent every request of one cycle
C19_TwoCollectorsInOneWindow ==
    /\ entry = "run_local.py"
    /\ issued["app"] = 1 + Len(STABLECOINS)
    /\ issued["rl"] = 1 + Len(STABLECOINS)
    /\ permits["app"] = issued["app"]

-----------------------------------------------------------------------------
(* Properties of the displays *)

\* the price of s in the snapshot cd, None when the snapshot has none
PriceIn(cd, s) ==
    IF HasKey(cd, "prices") /\ Lower[s] \in DOMAIN cd.prices
       /\ "usd" \in DOMAIN cd.prices[Lower[s]]
    THEN Some(cd.prices[Lower[s]].usd)
    ELSE None

\* what a display owes the optional value opt
Owed(opt) == IF opt = None THEN Unavailable ELSE [number |-> CHOOSE v \in opt : TRUE]

\* C20: what the dashboard of app.py shows tells a missing value from zero: a
\* price, supply or holder count the snapshot lacks is shown as no number,
\* and one the snapshot has is shown as that number, 0 included.
C20_MissingDistinctFromZero ==
    /\ (shown["cards"] # NotRun /\ current_data # EmptyDict) =>
          \A s \in SymbolSet :
              IF PriceIn(current_data, s) = None
              THEN "text" \notin DOMAIN shown["cards"][s]
              ELSE shown["cards"][s].text = CHOOSE v \in PriceIn(current_data, s) : TRUE
    /\ (shown["supply"] # NotRun /\ HasKey(current_data, "on_chain")) =>
          \A s \in DOMAIN current_data.on_chain :
              /\ shown["supply"][s].supply = Owed(current_data.on_chain[s].supply)
              /\ shown["supply"][s].holders = Owed(current_data.on_chain[s].holders)

-----------------------------------------------------------------------------
(* Properties of the requests *)

\* C21: no request is sent to an upstream unless the permit of the rate
\* limiter of that upstream was acquired before it.
C21_NoRequestWithoutPermit ==
    \A r \in sent : r.permit

-----------------------------------------------------------------------------
(* Properties of the order of the calls within one cycle *)

\* C22: the fetches of one cycle do not wait for each other: while the price
\* fetch has not completed, and while the on-chain fetch of one instrument
\* has not completed, the on-chain fetch of another instrument can start.
C22_OnChainFetchStartsIndependently ==
    \A t \in Builders :
        /\ pc[t] = "prices" => ENABLED CollectOnChain(t)
        /\ (pc[t] = "blocked" /\ idx[t] < Len(STABLECOINS)) => ENABLED CollectOnChain(t)

\* C23: in each cycle of an update loop get_historical_data is called exactly
\* once for every configured symbol: never twice, and when the cycle is over,
\* or cannot go on, no symbol was left out.
C23_EverySymbolRefreshedOncePerCycle ==
    \A t \in Builders :
        /\ \A s \in SymbolSet : refreshes[t][s] <= 1
        /\ pc[t] \in {"sleep", "blocked"} => \A s \in SymbolSet : refreshes[t][s] = 1

-----------------------------------------------------------------------------
(* Properties of the readers and of the stored values *)

\* C24: within one invocation of update_price_cards or of update_dashboard
\* every iteration of the loop over the instruments obtains the same value of
\* current_data as the iteration before it.
C24_OneSnapshotPerInvocation ==
    [][\A r \in DOMAIN seen :
          (seen[r] # Unread /\ seen'[r] # Unread) => seen'[r] = seen[r]]_vars

\* C25: historical_data of app.py only gains entries: every stored series is
\* non-empty, and an instrument that has a stored series keeps one through
\* every step, so update_price_chart finds the entry it tested for.
C25_StoredSeriesStays ==
    /\ [](\A s \in DOMAIN historical_data : ~IsEmptyFrame(historical_data[s]))
    /\ [][\A s \in DOMAIN historical_data :
             /\ s \in DOMAIN historical_data'
             /\ ~IsEmptyFrame(historical_data'[s])]_vars

\* C25, witness: in a later cycle the refresh of USDT failed, the refresh of
\* USDC is next, and the series stored for USDT and USDC are still there.
C25_SeriesKeptInLaterCycle ==
    /\ cycle["app"] = 1
    /\ pc["app"] = "hist_fetch"
    /\ idx["app"] = 2
    /\ IsEmptyFrame(hist_data["app"])
    /\ {"USDT", "USDC"} \subseteq DOMAIN historical_data

\* C26: in working_app.py, once update_data has assigned the fallback data,
\* current_data has an entry for every configured stablecoin, whatever the
\* price provider returned and whichever cycle failed.
C26_EveryStablecoinHasEntry ==
    (entry = "working_app.py" /\ pc["wa"] # "init") =>
        \A s \in SymbolSet : s \in DOMAIN current_data

\* C26, witness: a cycle stored an answer that held USDT only; USDC has the
\* fallback entry.
C26_PartialAnswerStored ==
    /\ entry = "working_app.py"
    /\ pc["wa"] = "sleep"
    /\ current_data # EmptyDict
    /\ current_data["USDT"] # get_fallback_data["USDT"]
    /\ current_data["USDC"] = get_fallback_data["USDC"]

ConsistentEntry(e) ==
    /\ e.peg_deviation = Abs(e.price - Scale)
    /\ e.peg_deviation >= 0
    /\ e.status = "Stable" <=> Abs(e.price - Scale) < StableBand

\* C28: every entry stored in current_data of working_app.py, the fallback
\* entries included, has peg_deviation = |price - 1.0| >= 0 and has the
\* status 'Stable' exactly when |price - 1.0| < 0.01.
C28_StoredEntriesConsistent ==
    entry = "working_app.py" =>
        \A s \in DOMAIN current_data : ConsistentEntry(current_data[s])

-----------------------------------------------------------------------------
(* Properties of run_local.py *)

\* C29: under run_local.py one collection loop sends the requests of the
\* process: at no time have the Throttlers of two collectors both granted
\* permits, and at no time have two loops both sent CoinGecko requests.
C29_OneLoopOneLimiter ==
    entry = "run_local.py" =>
        /\ Cardinality({t \in Builders : permits[t] > 0}) <= 1
        /\ Cardinality({t \in Loops : issued[t] > 0}) <= 1

====
